---------------------------- MODULE Spec2Model ----------------------------
(***************************************************************************)
(* A model of termdash_plugin_manager.package_manager.PluginManager: the   *)
(* plugin registry (self.plugins), the diagnostic log (self.errors) and    *)
(* the operations discover, list_plugins, get_plugin, is_installed,        *)
(* get_configured_plugins, get_enabled_plugin_ids, is_enabled,             *)
(* load_plugin, load_enabled, get_errors and clear_errors.                 *)
(*                                                                         *)
(* Python values are modelled as follows.                                  *)
(*   str    a sequence of code points, so that "f'{prefix}.{key}'" is a    *)
(*          concatenation and sorted() is the code point order;            *)
(*   dict   a sequence of <<key, value>> pairs with distinct keys, in      *)
(*          insertion order;                                               *)
(*   a configuration value: a record [kind, b, n, s, items] (PyValue).     *)
(***************************************************************************)
EXTENDS Integers, Sequences, FiniteSets, TLC

VARIABLES
    plugins,    \* self.plugins: dict plugin id -> TermDashPlugin
    errors,     \* self.errors: list of PluginError
    env,        \* the entry points installed, and whether enumerating them fails
    config,     \* the host's parsed configuration mapping
    op,         \* the operation that ran last, "environment" for a change of env
    arg,        \* its plugin_id argument (<<>> when it has none)
    ret,        \* what it returned; of a loading operation also whether it
                \* raised and the factory calls it made
    pre,        \* the registry keys and the log length when it was called, and
                \* the operation before it
    calls       \* the number of operations called so far, accessors apart

vars == <<plugins, errors, env, config, op, arg, ret, pre, calls>>

---------------------------------------------------------------------------
(* Bounds of the model. *)

\* the number of entry points of one enumeration
MaxEntries == 3
\* the number of nested tables under [modules] in a generated configuration
MaxTables == 2
\* the number of manager operations of one behaviour
MaxCalls == 2

---------------------------------------------------------------------------
(* Strings: sequences of code points. *)

STR_a == <<97>>
STR_b == <<98>>
STR_a_b == <<97, 46, 98>>
STR_empty == <<>>
STR_dot == <<46>>
STR_star == <<42>>
STR_enabled == <<101, 110, 97, 98, 108, 101, 100>>
STR_modules == <<109, 111, 100, 117, 108, 101, 115>>
STR_yes == <<121, 101, 115>>

\* the order of str.__lt__: by code point, a proper prefix first
RECURSIVE StrLess(_, _)
StrLess(s, t) ==
    IF t = <<>> THEN FALSE
    ELSE IF s = <<>> THEN TRUE
    ELSE IF s[1] # t[1] THEN s[1] < t[1]
    ELSE StrLess(Tail(s), Tail(t))

---------------------------------------------------------------------------
(* Python values of a configuration. *)

PyBool(b) == [kind |-> "bool", b |-> b, n |-> 0, s |-> <<>>, items |-> <<>>]
PyInt(n) == [kind |-> "int", b |-> FALSE, n |-> n, s |-> <<>>, items |-> <<>>]
PyStr(s) == [kind |-> "str", b |-> FALSE, n |-> 0, s |-> s, items |-> <<>>]
PyDict(items) == [kind |-> "dict", b |-> FALSE, n |-> 0, s |-> <<>>, items |-> items]
PyNone == [kind |-> "none", b |-> FALSE, n |-> 0, s |-> <<>>, items |-> <<>>]

\* isinstance(v, dict), isinstance(v, str), isinstance(v, bool)
IsDict(v) == v.kind = "dict"
IsStr(v) == v.kind = "str"
IsBool(v) == v.kind = "bool"
\* v is True, v is False
IsTrue(v) == v.kind = "bool" /\ v.b
IsFalse(v) == v.kind = "bool" /\ ~v.b

\* dict operations on a sequence of <<key, value>> pairs
DictKeys(d) == {d[i][1] : i \in 1..Len(d)}
DictHas(d, k) == \E i \in 1..Len(d) : d[i][1] = k
DictIndex(d, k) == CHOOSE i \in 1..Len(d) : d[i][1] = k
DictGet(d, k, default) == IF DictHas(d, k) THEN d[DictIndex(d, k)][2] ELSE default
\* d[k] = v: an existing key keeps its position, a new one is appended
DictSet(d, k, v) ==
    IF DictHas(d, k)
    THEN [d EXCEPT ![DictIndex(d, k)] = <<k, v>>]
    ELSE Append(d, <<k, v>>)

---------------------------------------------------------------------------
(* Diagnostics. *)

PluginError(plugin_id, stage, error, fmt, args) ==
    [plugin_id |-> plugin_id, stage |-> stage, error |-> error,
     message |-> [fmt |-> fmt, args |-> args]]

---------------------------------------------------------------------------
(* The extension source: importlib.metadata entry points.                  *)
(* An enumeration either fails or yields entries; an entry has a name and  *)
(* a load() that raises or yields an object; an object is a TermDashPlugin *)
(* (with id, plugin_type, factory) or something else, with or without an   *)
(* id attribute.                                                           *)

Descriptor(id, plugin_type, factory) ==
    [is_plugin |-> TRUE, has_id |-> TRUE, id |-> id,
     plugin_type |-> plugin_type, factory |-> factory]
Foreign(has_id, id) ==
    [is_plugin |-> FALSE, has_id |-> has_id, id |-> id,
     plugin_type |-> "", factory |-> ""]
\* an object that is no plugin and has no id: None, among others
NoObject == Foreign(FALSE, <<>>)
EntryPoint(name, raises, obj) == [name |-> name, raises |-> raises, obj |-> obj]

\* getattr(plugin_obj, "id", ep.name)
GetAttrId(obj, default) == IF obj.has_id THEN obj.id ELSE default

---------------------------------------------------------------------------
(* discover(): lines 39-101. *)

\* self.plugins.clear()
ClearRegistryKeep(reg) == reg
ClearRegistry(reg) == <<>>

\* the body of "for ep in eps", one entry: the registry and log after it
DiscoverEntryOverwrite(ep, st) ==
    IF ep.raises \/ ~ep.obj.is_plugin THEN st
    ELSE [st EXCEPT !.plugins = DictSet(st.plugins, ep.obj.id, ep.obj)]
DiscoverEntry(ep, st) ==
    IF ep.raises
    THEN [st EXCEPT !.errors = Append(st.errors,
            PluginError(ep.name, "discover", "load() raised",
                "Failed to import plugin entrypoint '{}'", <<ep.name>>))]
    ELSE IF ~ep.obj.is_plugin
    THEN [st EXCEPT !.errors = Append(st.errors,
            PluginError(GetAttrId(ep.obj, ep.name), "discover",
                "TypeError: Invalid plugin type",
                "Entrypoint '{}' did not return a TermDashPlugin object",
                <<ep.name>>))]
    ELSE IF DictHas(st.plugins, ep.obj.id)
    THEN [st EXCEPT !.errors = Append(st.errors,
            PluginError(ep.obj.id, "discover",
                "ValueError: Duplicate plugin id",
                "Duplicate plugin id '{}' found. Skipping.", <<ep.obj.id>>))]
    ELSE [st EXCEPT !.plugins = DictSet(st.plugins, ep.obj.id, ep.obj)]

\* "for ep in eps"
RECURSIVE DiscoverLoopBreak(_, _)
DiscoverLoopBreak(eps, st) ==
    IF eps = <<>> THEN st
    ELSE IF Head(eps).raises \/ ~Head(eps).obj.is_plugin
    THEN DiscoverEntry(Head(eps), st)
    ELSE DiscoverLoopBreak(Tail(eps), DiscoverEntry(Head(eps), st))
RECURSIVE DiscoverLoop(_, _)
DiscoverLoop(eps, st) ==
    IF eps = <<>> THEN st
    ELSE DiscoverLoop(Tail(eps), DiscoverEntry(Head(eps), st))

\* the except branch of the enumeration
EnumerationFailedSilent(st) == st
EnumerationFailed(st) ==
    [st EXCEPT !.errors = Append(st.errors,
        PluginError(STR_star, "discover", "entry_points() raised",
            "Failed to read entry points group 'termdash.plugins'", <<>>))]

\* discover() on the registry reg and the log errs, reading the source e
DoDiscoverFreshLog(e, reg, errs) ==
    LET st0 == [plugins |-> ClearRegistry(reg), errors |-> <<>>]
    IN  IF e.fails THEN EnumerationFailed(st0)
        ELSE DiscoverLoop(e.eps, st0)
DoDiscover(e, reg, errs) ==
    LET st0 == [plugins |-> ClearRegistry(reg), errors |-> errs]
    IN  IF e.fails THEN EnumerationFailed(st0) ELSE DiscoverLoop(e.eps, st0)

---------------------------------------------------------------------------
(* list_plugins(), get_plugin(), is_installed(): lines 103-113. *)

\* list(self.plugins.values())
ListPlugins(reg) == [i \in 1..Len(reg) |-> reg[i][2]]
\* self.plugins.get(plugin_id): the descriptor, or None
GetPlugin(reg, plugin_id) == DictGet(reg, plugin_id, NoObject)
\* plugin_id in self.plugins
IsInstalled(reg, plugin_id) == DictHas(reg, plugin_id)

---------------------------------------------------------------------------
(* get_configured_plugins(): lines 119-156. *)

\* f"{prefix}.{key}" if prefix else key
PluginId(prefix, key) == IF prefix # <<>> THEN prefix \o STR_dot \o key ELSE key

HasEnabled(value) == DictHas(value.items, PyStr(STR_enabled))

\* walk(prefix, node) on the items of node: the flat table after it
RECURSIVE WalkIntoTables(_, _, _)
WalkIntoTables(flat, prefix, items) ==
    IF items = <<>> THEN flat
    ELSE LET key == items[1][1]
             value == items[1][2]
             plugin_id == PluginId(prefix, key.s)
             flat1 == IF ~IsStr(key) \/ ~IsDict(value) THEN flat
                      ELSE IF HasEnabled(value)
                      THEN WalkIntoTables(DictSet(flat, PyStr(plugin_id), value),
                                          plugin_id, value.items)
                      ELSE WalkIntoTables(flat, plugin_id, value.items)
         IN  WalkIntoTables(flat1, prefix, Tail(items))
RECURSIVE Walk(_, _, _)
Walk(flat, prefix, items) ==
    IF items = <<>> THEN flat
    ELSE LET key == items[1][1]
             value == items[1][2]
             plugin_id == PluginId(prefix, key.s)
             flat1 == IF ~IsStr(key) THEN flat
                      ELSE IF IsDict(value)
                      THEN IF HasEnabled(value)
                           THEN DictSet(flat, PyStr(plugin_id), value)
                           ELSE Walk(flat, plugin_id, value.items)
                      ELSE flat
         IN  Walk(flat1, prefix, Tail(items))

GetConfiguredPlugins(cfg) ==
    LET modules == DictGet(cfg, PyStr(STR_modules), PyNone)
    IN  IF ~IsDict(modules) THEN <<>> ELSE Walk(<<>>, STR_empty, modules.items)

---------------------------------------------------------------------------
(* get_enabled_plugin_ids(): lines 158-185. *)

InvalidEnabled(plugin_id, enabled) ==
    PluginError(plugin_id, "load", "TypeError: enabled must be bool",
        "Invalid config: plugin '{}' has non-boolean 'enabled' value: {!r}",
        <<plugin_id, enabled>>)

\* the body of "for plugin_id, plugin_cfg in configured.items()", one entry
EnabledEntryTruthy(item, st) ==
    LET enabled == DictGet(item[2].items, PyStr(STR_enabled), PyBool(FALSE))
    IN  IF IsFalse(enabled) THEN st
        ELSE [st EXCEPT !.ids = Append(st.ids, item[1].s)]
EnabledEntry(item, st) ==
    LET plugin_id == item[1].s
        enabled == DictGet(item[2].items, PyStr(STR_enabled), PyBool(FALSE))
    IN  IF IsTrue(enabled)
        THEN [st EXCEPT !.ids = Append(st.ids, plugin_id)]
        ELSE IF ~IsFalse(enabled)
        THEN [st EXCEPT !.errors = Append(st.errors, InvalidEnabled(plugin_id, enabled))]
        ELSE st

RECURSIVE EnabledLoop(_, _)
EnabledLoop(configured, st) ==
    IF configured = <<>> THEN st
    ELSE EnabledLoop(Tail(configured), EnabledEntry(Head(configured), st))

\* [ids, errors]: the list returned and the log after the call
GetEnabledPluginIdsConfigured(cfg, errs) ==
    LET configured == GetConfiguredPlugins(cfg)
    IN  [ids |-> [i \in 1..Len(configured) |-> configured[i][1].s], errors |-> errs]
GetEnabledPluginIds(cfg, errs) ==
    EnabledLoop(GetConfiguredPlugins(cfg), [ids |-> <<>>, errors |-> errs])

---------------------------------------------------------------------------
(* is_enabled(): lines 187-215. *)

\* [value, errors]: the boolean returned and the log after the call
IsEnabledLenient(plugin_id, cfg, errs) ==
    LET plugin_cfg == DictGet(GetConfiguredPlugins(cfg), PyStr(plugin_id), PyNone)
        enabled == DictGet(plugin_cfg.items, PyStr(STR_enabled), PyBool(FALSE))
    IN  IF ~IsDict(plugin_cfg)
        THEN [value |-> FALSE, errors |-> errs]
        ELSE [value |-> ~IsFalse(enabled), errors |-> errs]
IsEnabledQuiet(plugin_id, cfg, errs) ==
    LET plugin_cfg == DictGet(GetConfiguredPlugins(cfg), PyStr(plugin_id), PyNone)
        enabled == IF IsDict(plugin_cfg)
                   THEN DictGet(plugin_cfg.items, PyStr(STR_enabled), PyBool(FALSE))
                   ELSE PyBool(FALSE)
    IN  [value |-> IsTrue(enabled), errors |-> errs]
IsEnabled(plugin_id, cfg, errs) ==
    LET configured == GetConfiguredPlugins(cfg)
        plugin_cfg == DictGet(configured, PyStr(plugin_id), PyNone)
        enabled == DictGet(plugin_cfg.items, PyStr(STR_enabled), PyBool(FALSE))
    IN  IF ~IsDict(plugin_cfg)
        THEN [value |-> FALSE, errors |-> errs]
        ELSE IF ~IsBool(enabled)
        THEN [value |-> FALSE,
              errors |-> Append(errs, InvalidEnabled(plugin_id, enabled))]
        ELSE [value |-> enabled.b, errors |-> errs]

---------------------------------------------------------------------------
(* load_plugin(): lines 221-303. *)

\* An instance is what a factory returned: a textual Widget, a textual
\* Screen (Screen is a subclass of Widget), another object, or None. It
\* carries the id of the plugin whose factory made it and the arguments
\* the factory was called with.
Instance(kind, by, app, plugin_cfg) ==
    [kind |-> kind, by |-> by, app |-> app, cfg |-> plugin_cfg]
NoInstance == Instance("none", <<>>, "", <<>>)
\* isinstance(instance, Widget), isinstance(instance, Screen)
IsWidget(instance) == instance.kind \in {"widget", "screen"}
IsScreen(instance) == instance.kind = "screen"

\* plugin.factory(app, plugin_cfg): it raises, or returns a value
CallFactory(plugin, app, plugin_cfg) ==
    IF plugin.factory = "raises"
    THEN [raised |-> TRUE, value |-> NoInstance]
    ELSE [raised |-> FALSE,
          value |-> CASE plugin.factory = "returns_widget" ->
                            Instance("widget", plugin.id, app, plugin_cfg)
                      [] plugin.factory = "returns_screen" ->
                            Instance("screen", plugin.id, app, plugin_cfg)
                      [] plugin.factory = "returns_other" ->
                            Instance("other", plugin.id, app, plugin_cfg)
                      [] OTHER -> NoInstance]

\* one call of a factory: the plugin it belongs to and its two arguments
Invocation(plugin, app, plugin_cfg) ==
    [by |-> plugin.id, app |-> app, cfg |-> plugin_cfg]

\* what a step of load_plugin leaves: whether an exception is propagating,
\* whether the method goes on, the instance so far, the log, and the
\* factory calls made
Step(raised, done, instance, errs) ==
    [raised |-> raised, done |-> done, instance |-> instance, errors |-> errs,
     invoked |-> <<>>]

\* lines 254-265: try: instance = plugin.factory(...) except Exception
TryFactoryUncaught(plugin, plugin_id, app, plugin_cfg, errs) ==
    LET call == CallFactory(plugin, app, plugin_cfg)
        step == IF call.raised THEN Step(TRUE, TRUE, NoInstance, errs)
                ELSE Step(FALSE, FALSE, call.value, errs)
    IN  [step EXCEPT !.invoked = <<Invocation(plugin, app, plugin_cfg)>>]
TryFactory(plugin, plugin_id, app, plugin_cfg, errs) ==
    LET call == CallFactory(plugin, app, plugin_cfg)
        step == IF call.raised
                THEN Step(FALSE, TRUE, NoInstance,
                        Append(errs, PluginError(plugin_id, "load", "the factory's exception",
                            "Plugin '{}' factory raised an exception.", <<plugin_id>>)))
                ELSE Step(FALSE, FALSE, call.value, errs)
    IN  [step EXCEPT !.invoked = <<Invocation(plugin, app, plugin_cfg)>>]

\* lines 267-303: validate the instance against plugin.plugin_type
ValidateInstanceSilent(plugin, plugin_id, instance, errs) ==
    IF plugin.plugin_type = "widget" /\ IsWidget(instance)
    THEN Step(FALSE, TRUE, instance, errs)
    ELSE IF plugin.plugin_type = "page" /\ IsScreen(instance)
    THEN Step(FALSE, TRUE, instance, errs)
    ELSE IF plugin.plugin_type \in {"widget", "page"}
    THEN Step(FALSE, TRUE, NoInstance,
            Append(errs, PluginError(plugin_id, "load",
                "TypeError: Invalid plugin return type",
                "Plugin '{}' is type '{}' but factory returned {}",
                <<plugin_id, plugin.plugin_type, instance.kind>>)))
    ELSE Step(FALSE, TRUE, NoInstance, errs)
ValidateInstanceAnyWidget(plugin, plugin_id, instance, errs) ==
    IF plugin.plugin_type \in {"widget", "page"}
    THEN IF ~IsWidget(instance)
         THEN Step(FALSE, TRUE, NoInstance,
                Append(errs, PluginError(plugin_id, "load",
                    "TypeError: Invalid plugin return type",
                    "Plugin '{}' is type '{}' but factory returned {}",
                    <<plugin_id, plugin.plugin_type, instance.kind>>)))
         ELSE Step(FALSE, TRUE, instance, errs)
    ELSE Step(FALSE, TRUE, NoInstance,
            Append(errs, PluginError(plugin_id, "load",
                "ValueError: Unknown plugin type",
                "Plugin '{}' has unknown plugin_type: {}",
                <<plugin_id, plugin.plugin_type>>)))
ValidateInstance(plugin, plugin_id, instance, errs) ==
    IF plugin.plugin_type = "widget"
    THEN IF ~IsWidget(instance)
         THEN Step(FALSE, TRUE, NoInstance,
                Append(errs, PluginError(plugin_id, "load",
                    "TypeError: Invalid plugin return type",
                    "Plugin '{}' is type '{}' but factory returned {}",
                    <<plugin_id, "widget", instance.kind>>)))
         ELSE Step(FALSE, TRUE, instance, errs)
    ELSE IF plugin.plugin_type = "page"
    THEN IF ~IsScreen(instance)
         THEN Step(FALSE, TRUE, NoInstance,
                Append(errs, PluginError(plugin_id, "load",
                    "TypeError: Invalid plugin return type",
                    "Plugin '{}' is type '{}' but factory returned {}",
                    <<plugin_id, "page", instance.kind>>)))
         ELSE Step(FALSE, TRUE, instance, errs)
    ELSE Step(FALSE, TRUE, NoInstance,
            Append(errs, PluginError(plugin_id, "load",
                "ValueError: Unknown plugin type",
                "Plugin '{}' has unknown plugin_type: {}",
                <<plugin_id, plugin.plugin_type>>)))

\* [raised, instance, errors, invoked]: whether load_plugin raised, what it
\* returned, the log after the call and the factory calls it made
LoadPluginWholeConfig(reg, errs, plugin_id, app, cfg) ==
    IF GetPlugin(reg, plugin_id) = NoObject
    THEN Step(FALSE, TRUE, NoInstance,
            Append(errs, PluginError(plugin_id, "load", "KeyError: Plugin not installed",
                "Plugin '{}' is not installed or not discoverable.", <<plugin_id>>)))
    ELSE LET plugin == GetPlugin(reg, plugin_id)
             made == TryFactory(plugin, plugin_id, app, cfg, errs)
         IN  IF made.done THEN made
             ELSE [ValidateInstance(plugin, plugin_id, made.instance, made.errors)
                        EXCEPT !.invoked = made.invoked]
LoadPlugin(reg, errs, plugin_id, app, cfg) ==
    IF GetPlugin(reg, plugin_id) = NoObject
    THEN Step(FALSE, TRUE, NoInstance,
            Append(errs, PluginError(plugin_id, "load", "KeyError: Plugin not installed",
                "Plugin '{}' is not installed or not discoverable.", <<plugin_id>>)))
    ELSE LET plugin == GetPlugin(reg, plugin_id)
             configured == GetConfiguredPlugins(cfg)
             found == DictGet(configured, PyStr(plugin_id), PyDict(<<>>))
             plugin_cfg == IF ~IsDict(found) THEN <<>> ELSE found.items
             made == TryFactory(plugin, plugin_id, app, plugin_cfg, errs)
         IN  IF made.done THEN made
             ELSE [ValidateInstance(plugin, plugin_id, made.instance, made.errors)
                        EXCEPT !.invoked = made.invoked]

---------------------------------------------------------------------------
(* load_enabled(): lines 305-337. *)

\* sorted(ids): ascending in the order of str, by insertion
RECURSIVE InsertSorted(_, _)
InsertSorted(x, sorted) ==
    IF sorted = <<>> THEN <<x>>
    ELSE IF StrLess(x, Head(sorted)) THEN <<x>> \o sorted
    ELSE <<Head(sorted)>> \o InsertSorted(x, Tail(sorted))
RECURSIVE SortIds(_)
SortIds(ids) ==
    IF ids = <<>> THEN <<>>
    ELSE InsertSorted(ids[Len(ids)], SortIds(SubSeq(ids, 1, Len(ids) - 1)))
SortedUnsorted(ids) == ids
Sorted(ids) == SortIds(ids)

\* the body of "for plugin_id in enabled_ids", one id; an exception that
\* load_plugin lets through ends the loop and the call
LoadEnabledEntryDelegates(reg, plugin_id, app, cfg, st) ==
    LET r == LoadPlugin(reg, st.errors, plugin_id, app, cfg)
        made == [st EXCEPT !.errors = r.errors, !.invoked = st.invoked \o r.invoked]
    IN  IF r.raised THEN [made EXCEPT !.raised = TRUE]
        ELSE IF r.instance # NoInstance
        THEN [made EXCEPT !.loaded = Append(st.loaded, r.instance)]
        ELSE made
LoadEnabledEntryRetries(reg, plugin_id, app, cfg, st) ==
    IF ~IsInstalled(reg, plugin_id)
    THEN [st EXCEPT !.errors = Append(st.errors,
            PluginError(plugin_id, "load", "KeyError: Plugin enabled but not installed",
                "Plugin '{}' is enabled in config but not installed.", <<plugin_id>>))]
    ELSE LET first == LoadPlugin(reg, st.errors, plugin_id, app, cfg)
             r == IF first.instance # NoInstance THEN first
                  ELSE [LoadPlugin(reg, st.errors, plugin_id, app, cfg)
                            EXCEPT !.invoked = first.invoked \o @]
             made == [st EXCEPT !.errors = r.errors, !.invoked = st.invoked \o r.invoked]
         IN  IF r.raised THEN [made EXCEPT !.raised = TRUE]
             ELSE IF r.instance # NoInstance
             THEN [made EXCEPT !.loaded = Append(st.loaded, r.instance)]
             ELSE made
LoadEnabledEntry(reg, plugin_id, app, cfg, st) ==
    IF ~IsInstalled(reg, plugin_id)
    THEN [st EXCEPT !.errors = Append(st.errors,
            PluginError(plugin_id, "load", "KeyError: Plugin enabled but not installed",
                "Plugin '{}' is enabled in config but not installed.", <<plugin_id>>))]
    ELSE LET r == LoadPlugin(reg, st.errors, plugin_id, app, cfg)
             made == [st EXCEPT !.errors = r.errors, !.invoked = st.invoked \o r.invoked]
         IN  IF r.raised THEN [made EXCEPT !.raised = TRUE]
             ELSE IF r.instance # NoInstance
             THEN [made EXCEPT !.loaded = Append(st.loaded, r.instance)]
             ELSE made

RECURSIVE LoadEnabledLoop(_, _, _, _, _)
LoadEnabledLoop(reg, enabled_ids, app, cfg, st) ==
    IF enabled_ids = <<>> \/ st.raised THEN st
    ELSE LoadEnabledLoop(reg, Tail(enabled_ids), app, cfg,
            LoadEnabledEntry(reg, Head(enabled_ids), app, cfg, st))

\* [raised, loaded, errors, invoked]
LoadEnabledChecksLast(reg, errs, app, cfg) ==
    LET e == GetEnabledPluginIds(cfg, errs)
        enabled_ids == Sorted(e.ids)
        st == LoadEnabledLoop(reg, enabled_ids, app, cfg,
                [raised |-> FALSE, loaded |-> <<>>, errors |-> errs, invoked |-> <<>>])
    IN  [st EXCEPT !.errors = @ \o SubSeq(e.errors, Len(errs) + 1, Len(e.errors))]
LoadEnabled(reg, errs, app, cfg) ==
    LET e == GetEnabledPluginIds(cfg, errs)
        enabled_ids == Sorted(e.ids)
    IN  LoadEnabledLoop(reg, enabled_ids, app, cfg,
            [raised |-> FALSE, loaded |-> <<>>, errors |-> e.errors, invoked |-> <<>>])

---------------------------------------------------------------------------
(* get_errors() and clear_errors(): lines 343-349. *)

\* return self.errors
GetErrors(errs) == errs

DoClearErrorsKeepsLast(errs) == IF errs = <<>> THEN <<>> ELSE <<errs[Len(errs)]>>
DoClearErrors(errs) == <<>>

---------------------------------------------------------------------------
(* The inputs of the model. *)

SeqsUpTo(S, n) == UNION {[1..k -> S] : k \in 0..n}

\* the declared name of the i-th entry point: "e1", "e2", ...
EntryName(i) == <<101, 48 + i>>

Imported(obj) == [raises |-> FALSE, obj |-> obj]
ImportFails == [raises |-> TRUE, obj |-> NoObject]

\* an enumeration: whether it fails, and the entries installed
Source(fails, outcomes) ==
    [fails |-> fails,
     eps |-> [i \in 1..Len(outcomes) |->
                 EntryPoint(EntryName(i), outcomes[i].raises, outcomes[i].obj)]]
NoSource == Source(FALSE, <<>>)

\* what the entries of the discovery runs resolve to
DiscoverOutcomes ==
    { ImportFails,
      Imported(Foreign(TRUE, STR_a)),
      Imported(Foreign(FALSE, <<>>)),
      Imported(Descriptor(STR_a, "widget", "returns_widget")),
      Imported(Descriptor(STR_a, "page", "returns_screen")),
      Imported(Descriptor(STR_b, "widget", "returns_widget")) }
DiscoverSources == {Source(FALSE, o) : o \in SeqsUpTo(DiscoverOutcomes, MaxEntries)}

\* the sources of the loading runs: each id installed once or not at all, in
\* either order, with descriptors of every plugin_type and factories of
\* every behaviour, or a broken entry point in the place of b
LoadBehaviours ==
    { <<"widget", "returns_widget">>, <<"widget", "returns_screen">>,
      <<"widget", "returns_other">>, <<"widget", "returns_none">>,
      <<"widget", "raises">>, <<"page", "returns_screen">>,
      <<"page", "returns_widget">>, <<"gauge", "returns_widget">>,
      <<"gauge", "raises">> }
Installs(id, behaviours) ==
    {<<>>} \cup {<<Imported(Descriptor(id, b[1], b[2]))>> : b \in behaviours}
SourcesOf(as, bs) ==
    {Source(FALSE, x \o y) : x \in as, y \in bs} \cup {Source(FALSE, y \o x) : x \in as, y \in bs}
LoadSources ==
    SourcesOf(Installs(STR_a, LoadBehaviours),
              Installs(STR_b, {<<"widget", "returns_widget">>, <<"widget", "raises">>,
                               <<"page", "returns_screen">>}) \cup {<<ImportFails>>})

\* the sources of the mixed runs
MixedSources ==
    SourcesOf(Installs(STR_a, {<<"widget", "returns_widget">>, <<"widget", "raises">>}),
              Installs(STR_b, {<<"page", "returns_widget">>}))
        \cup {Source(FALSE, <<ImportFails, Imported(Descriptor(STR_a, "page", "returns_screen")),
                              Imported(Descriptor(STR_a, "widget", "returns_widget"))>>)}

\* the host context
App == "app"

NoConfig == <<>>

\* A nest of tables, as a TOML document declares them: table i is a child of
\* table parent (0: of [modules] itself), under key, and has the enabled
\* entry given, if any. Children follow a table's own entries in the order
\* they are declared.
Absent == [has |-> FALSE, value |-> PyNone]
Present(v) == [has |-> TRUE, value |-> v]
EnabledChoices ==
    {Absent, Present(PyBool(TRUE)), Present(PyBool(FALSE)), Present(PyStr(STR_yes))}
TableKeys == {PyStr(STR_a), PyStr(STR_b)}
TableNests ==
    UNION {
        {t \in [1..n -> [parent : 0..(n - 1), key : TableKeys, enabled : EnabledChoices]] :
            /\ \A i \in 1..n : t[i].parent < i
            /\ \A i, j \in 1..n :
                (i < j /\ t[i].parent = t[j].parent) => t[i].key # t[j].key}
        : n \in 0..MaxTables}

RECURSIVE ChildItems(_, _, _)
TableItems(t, i) ==
    (IF i > 0 /\ t[i].enabled.has
     THEN <<<<PyStr(STR_enabled), t[i].enabled.value>>>> ELSE <<>>)
        \o ChildItems(t, i, i + 1)
ChildItems(t, i, j) ==
    IF j > Len(t) THEN <<>>
    ELSE (IF t[j].parent = i THEN <<<<t[j].key, PyDict(TableItems(t, j))>>>> ELSE <<>>)
            \o ChildItems(t, i, j + 1)

WithModules(v) == <<<<PyStr(STR_modules), v>>>>
Plugin(v) == PyDict(<<<<PyStr(STR_enabled), v>>>>)

\* configurations the nests do not reach: no [modules], modules that is no
\* table, scalars beside tables, keys that are empty, dotted or no strings,
\* numbers for enabled, and tables whose paths join to the same id
OtherConfigs ==
    { NoConfig,
      WithModules(PyDict(<<<<PyInt(7), Plugin(PyBool(TRUE))>>,
                          <<PyStr(STR_b), Plugin(PyInt(1))>>,
                          <<PyStr(STR_a), PyDict(<<<<PyInt(7), Plugin(PyBool(TRUE))>>,
                                                  <<PyStr(STR_a_b), Plugin(PyInt(0))>>>>)>>>>)),
      WithModules(PyDict(<<<<PyStr(STR_empty), Plugin(PyBool(TRUE))>>,
                          <<PyStr(STR_a), PyDict(<<<<PyStr(STR_empty), Plugin(PyBool(TRUE))>>>>)>>>>)),
      <<<<PyStr(STR_a), Plugin(PyBool(TRUE))>>>>,
      WithModules(PyStr(STR_yes)),
      WithModules(PyBool(TRUE)),
      WithModules(PyDict(<<<<PyStr(STR_enabled), PyBool(TRUE)>>,
                          <<PyStr(STR_a), PyBool(TRUE)>>,
                          <<PyStr(STR_b), Plugin(PyDict(<<>>))>>>>)),
      WithModules(PyDict(<<<<PyStr(STR_b), Plugin(PyStr(STR_yes))>>,
                          <<PyStr(STR_a_b), Plugin(PyBool(FALSE))>>,
                          <<PyStr(STR_a), Plugin(PyBool(TRUE))>>>>)),
      WithModules(PyDict(<<<<PyStr(STR_a_b), Plugin(PyBool(TRUE))>>,
                          <<PyStr(STR_a), PyDict(<<<<PyStr(STR_b), Plugin(PyStr(STR_yes))>>>>)>>>>)),
      WithModules(PyDict(<<<<PyStr(STR_a), PyDict(<<<<PyStr(STR_b), Plugin(PyBool(TRUE))>>>>)>>,
                          <<PyStr(STR_a_b), PyDict(<<<<PyStr(STR_a), PyInt(1)>>>>)>>>>)),
      WithModules(PyDict(<<<<PyStr(STR_a), PyDict(<<<<PyStr(STR_enabled), PyBool(TRUE)>>,
                                                       <<PyStr(STR_b), Plugin(PyBool(TRUE))>>>>)>>,
                          <<PyStr(STR_b), PyDict(<<<<PyStr(STR_a), Plugin(PyBool(FALSE))>>>>)>>>>)),
      WithModules(PyDict(<<<<PyStr(STR_empty), PyDict(<<<<PyStr(STR_a), Plugin(PyBool(TRUE))>>>>)>>,
                          <<PyStr(STR_a), Plugin(PyBool(FALSE))>>>>)) }

Configs == {WithModules(PyDict(TableItems(t, 0))) : t \in TableNests} \cup OtherConfigs

\* the configurations of the loading runs: the tables a and b directly under
\* modules, each there or not, in either order, with every enabled entry;
\* no [modules], and a modules that is no table; a and b enabled after and
\* around a third table whose enabled is a string
Tables(key) == {<<>>} \cup {<<<<key, PyDict(TableItems(<<[enabled |-> e]>>, 1))>>>> : e \in EnabledChoices}
LoadConfigs ==
    {WithModules(PyDict(x \o y)) : x \in Tables(PyStr(STR_a)), y \in Tables(PyStr(STR_b))}
        \cup {WithModules(PyDict(y \o x)) : x \in Tables(PyStr(STR_a)), y \in Tables(PyStr(STR_b))}
        \cup { NoConfig,
               WithModules(PyStr(STR_yes)),
               WithModules(PyDict(<<<<PyStr(STR_b), Plugin(PyBool(TRUE))>>,
                                   <<PyStr(STR_a_b), Plugin(PyStr(STR_yes))>>,
                                   <<PyStr(STR_a), Plugin(PyBool(TRUE))>>>>)) }
\* ... and of the mixed runs
MixedConfigs ==
    { NoConfig,
      WithModules(PyDict(<<<<PyStr(STR_b), Plugin(PyBool(TRUE))>>,
                          <<PyStr(STR_a), Plugin(PyBool(TRUE))>>>>)),
      WithModules(PyDict(<<<<PyStr(STR_a), Plugin(PyStr(STR_yes))>>,
                          <<PyStr(STR_b), Plugin(PyBool(TRUE))>>>>)),
      WithModules(PyDict(<<<<PyStr(STR_a), Plugin(PyBool(FALSE))>>,
                          <<PyStr(STR_b), PyDict(<<<<PyStr(STR_a), Plugin(PyBool(FALSE))>>>>)>>>>)) }

\* the ids the host asks about
QueryIds == {STR_a, STR_b, STR_a_b, STR_empty}
LoadIds == {STR_a, STR_b}
AccessIds == {STR_a}

---------------------------------------------------------------------------
(* The state machine. *)

Fresh(sources, configs) ==
    /\ plugins = <<>>
    /\ errors = <<>>
    /\ env \in sources
    /\ config \in configs
    /\ op = "init"
    /\ arg = <<>>
    /\ ret = <<>>
    /\ pre = [ids |-> {}, nerr |-> 0, op |-> "init", was |-> 0]
    /\ calls = 0

\* what a state keeps of the state before it: the registry keys, the log
\* length, the operation that had run last and the log length before that
Snapshot ==
    [ids |-> DictKeys(plugins), nerr |-> Len(errors), op |-> op, was |-> pre.nerr]

\* a call of the manager: what the next state records of it
Called(name, id, result) ==
    /\ calls < MaxCalls
    /\ calls' = calls + 1
    /\ op' = name
    /\ arg' = id
    /\ ret' = result
    /\ pre' = Snapshot

\* a call of one of the accessors, which take no part in the budget of calls;
\* one accessor is called between two other operations
Accessors == {"list_plugins", "get_plugin", "is_installed", "get_errors"}
Queried(name, id, result) ==
    /\ op \notin Accessors
    /\ op' = name
    /\ arg' = id
    /\ ret' = result
    /\ pre' = Snapshot
    /\ UNCHANGED <<plugins, errors, env, config, calls>>

CallListPlugins == Queried("list_plugins", <<>>, ListPlugins(plugins))

CallGetPlugin(ids) == \E id \in ids : Queried("get_plugin", id, GetPlugin(plugins, id))

CallIsInstalled(ids) == \E id \in ids : Queried("is_installed", id, IsInstalled(plugins, id))

CallGetErrors == Queried("get_errors", <<>>, GetErrors(errors))

Discover ==
    LET r == DoDiscover(env, plugins, errors)
    IN  /\ Called("discover", <<>>, r.plugins)
        /\ plugins' = r.plugins
        /\ errors' = r.errors
        /\ UNCHANGED <<env, config>>

CallGetConfiguredPlugins ==
    /\ Called("get_configured_plugins", <<>>, GetConfiguredPlugins(config))
    /\ UNCHANGED <<plugins, errors, env, config>>

CallGetEnabledPluginIds ==
    LET r == GetEnabledPluginIds(config, errors)
    IN  /\ Called("get_enabled_plugin_ids", <<>>, r.ids)
        /\ errors' = r.errors
        /\ UNCHANGED <<plugins, env, config>>

CallIsEnabled(ids) ==
    \E id \in ids :
        LET r == IsEnabled(id, config, errors)
        IN  /\ Called("is_enabled", id, r.value)
            /\ errors' = r.errors
            /\ UNCHANGED <<plugins, env, config>>

CallLoadPluginEvicts(ids) ==
    \E id \in ids :
        LET r == LoadPlugin(plugins, errors, id, App, config)
        IN  /\ Called("load_plugin", id,
                    [raised |-> r.raised, value |-> r.instance, invoked |-> r.invoked])
            /\ errors' = r.errors
            /\ plugins' = IF r.instance = NoInstance
                          THEN SelectSeq(plugins, LAMBDA kv : kv[1] # id)
                          ELSE plugins
            /\ UNCHANGED <<env, config>>
CallLoadPlugin(ids) ==
    \E id \in ids :
        LET r == LoadPlugin(plugins, errors, id, App, config)
        IN  /\ Called("load_plugin", id,
                    [raised |-> r.raised, value |-> r.instance, invoked |-> r.invoked])
            /\ errors' = r.errors
            /\ UNCHANGED <<plugins, env, config>>

CallLoadEnabled ==
    LET r == LoadEnabled(plugins, errors, App, config)
    IN  /\ Called("load_enabled", <<>>,
                [raised |-> r.raised, value |-> r.loaded, invoked |-> r.invoked])
        /\ errors' = r.errors
        /\ UNCHANGED <<plugins, env, config>>

ClearErrors ==
    /\ Called("clear_errors", <<>>, <<>>)
    /\ errors' = DoClearErrors(errors)
    /\ UNCHANGED <<plugins, env, config>>

\* The world outside the manager, between two calls: a distribution is
\* uninstalled and its entry point is gone, or the metadata becomes
\* unreadable and enumerating fails from then on.
Changed(source) ==
    /\ calls < MaxCalls
    /\ env' = source
    /\ op' = "environment"
    /\ arg' = <<>>
    /\ ret' = <<>>
    /\ pre' = Snapshot
    /\ UNCHANGED <<plugins, errors, config, calls>>

Uninstall ==
    \E i \in 1..Len(env.eps) :
        Changed([env EXCEPT !.eps = SubSeq(env.eps, 1, i - 1) \o SubSeq(env.eps, i + 1, Len(env.eps))])

BreakEnumeration ==
    /\ ~env.fails
    /\ Changed([env EXCEPT !.fails = TRUE])

\* discovery, while the installed entry points change
InitDiscover == Fresh(DiscoverSources, {NoConfig})
NextDiscover == Discover \/ ClearErrors \/ Uninstall \/ BreakEnumeration
SpecDiscover == InitDiscover /\ [][NextDiscover]_vars

\* the configuration resolver, on every configuration
InitConfig == Fresh({NoSource}, Configs)
NextConfig ==
    \/ CallGetConfiguredPlugins
    \/ CallGetEnabledPluginIds
    \/ CallIsEnabled(QueryIds)
    \/ ClearErrors
SpecConfig == InitConfig /\ [][NextConfig]_vars

\* discovery and loading
InitLoad == Fresh(LoadSources, LoadConfigs)
NextLoad == Discover \/ CallLoadPlugin(LoadIds) \/ CallLoadEnabled
SpecLoad == InitLoad /\ [][NextLoad]_vars

\* every operation of the manager, on installed entry points that stay
Init == Fresh(MixedSources, MixedConfigs)
Next ==
    \/ Discover
    \/ CallGetConfiguredPlugins
    \/ CallGetEnabledPluginIds
    \/ CallIsEnabled(AccessIds)
    \/ CallLoadPlugin(LoadIds)
    \/ CallLoadEnabled
    \/ ClearErrors
    \/ CallListPlugins
    \/ CallGetPlugin(AccessIds)
    \/ CallIsInstalled(AccessIds)
    \/ CallGetErrors
Spec == Init /\ [][Next]_vars

---------------------------------------------------------------------------
(* Properties of discover(). *)

\* the entries of the last enumeration that resolve to a TermDashPlugin
ValidEntries == {i \in 1..Len(env.eps) : ~env.eps[i].raises /\ env.eps[i].obj.is_plugin}
\* ... with the id x
ValidWithId(x) == {i \in ValidEntries : env.eps[i].obj.id = x}
\* the entries that are not registered: load() raised, not a TermDashPlugin,
\* or an id an earlier valid entry has
RejectedEntries ==
    {i \in 1..Len(env.eps) :
        \/ i \notin ValidEntries
        \/ \E j \in ValidEntries : j < i /\ env.eps[j].obj.id = env.eps[i].obj.id}
\* the diagnostics the last operation appended
NewErrors == SubSeq(errors, pre.nerr + 1, Len(errors))
\* the k-th smallest element of a set of numbers
Nth(S, k) == CHOOSE i \in S : Cardinality({j \in S : j < i}) = k - 1
\* the plugin_id the diagnostic of the rejected entry i carries
RejectedId(i) ==
    IF env.eps[i].raises THEN env.eps[i].name
    ELSE IF ~env.eps[i].obj.is_plugin THEN
        (IF env.eps[i].obj.has_id THEN env.eps[i].obj.id ELSE env.eps[i].name)
    ELSE env.eps[i].obj.id
ScanDone == op = "discover" /\ ~env.fails

\* C1: discovery isolation. After a discover() whose enumeration succeeded,
\* an id is a key of the registry iff some entry resolves to a valid
\* descriptor with that id, whatever the other entries do, and the rejected
\* entries each appended one stage=discover diagnostic, in entry order.
C1_DiscoveryIsolation ==
    ScanDone =>
        /\ DictKeys(plugins) = {env.eps[i].obj.id : i \in ValidEntries}
        /\ Len(NewErrors) = Cardinality(RejectedEntries)
        /\ \A k \in 1..Len(NewErrors) :
                /\ NewErrors[k].stage = "discover"
                /\ NewErrors[k].plugin_id = RejectedId(Nth(RejectedEntries, k))

\* a valid entry between two entries that fail is registered
C1_Witness ==
    /\ ScanDone
    /\ Len(env.eps) = 3
    /\ env.eps[1].raises
    /\ 2 \in ValidEntries
    /\ 3 \notin ValidEntries
    /\ DictHas(plugins, env.eps[2].obj.id)
    /\ Len(NewErrors) = 2

IsDuplicateError(e, x) ==
    /\ e.plugin_id = x
    /\ e.stage = "discover"
    /\ e.error = "ValueError: Duplicate plugin id"

\* C2: duplicate ids. For every id that n >= 1 valid entries carry, the
\* registry keeps the descriptor of the first of them and the scan appended
\* n - 1 duplicate-id diagnostics for that id: exactly one when n = 2.
C2_FirstSeenWins ==
    ScanDone =>
        \A i \in ValidEntries :
            LET x == env.eps[i].obj.id
                first == CHOOSE j \in ValidWithId(x) : \A l \in ValidWithId(x) : j <= l
            IN  /\ DictGet(plugins, x, NoObject) = env.eps[first].obj
                /\ Cardinality({k \in 1..Len(NewErrors) : IsDuplicateError(NewErrors[k], x)})
                       = Cardinality(ValidWithId(x)) - 1

\* two different descriptors with one id: the first is kept, one diagnostic
C2_Witness ==
    /\ ScanDone
    /\ \E i, j \in ValidEntries :
            /\ i < j
            /\ env.eps[i].obj.id = env.eps[j].obj.id
            /\ env.eps[i].obj # env.eps[j].obj
            /\ ValidWithId(env.eps[i].obj.id) = {i, j}
            /\ DictGet(plugins, env.eps[i].obj.id, NoObject) = env.eps[i].obj
            /\ Cardinality({k \in 1..Len(NewErrors) :
                    IsDuplicateError(NewErrors[k], env.eps[i].obj.id)}) = 1

\* the registry a manager holds after its first discover() of the source e
FreshRegistry(e) == DoDiscover(e, <<>>, <<>>).plugins

\* C3: after any discover() the registry is the one a fresh manager builds
\* from the same extension data, and it is what discover() returns: no id
\* of an earlier pass survives unless the current data has it.
C3_RebuiltWholesale ==
    op = "discover" =>
        /\ plugins = FreshRegistry(env)
        /\ ret = plugins
        /\ \A x \in pre.ids : DictHas(plugins, x) => ValidWithId(x) # {}

\* a second pass drops one id of the first and keeps the other
C3_Witness ==
    /\ op = "discover"
    /\ calls = 2
    /\ \E x \in pre.ids : ~DictHas(plugins, x)
    /\ \E x \in pre.ids : DictHas(plugins, x)

\* C4: when the enumeration itself fails, discover() appends one diagnostic
\* with plugin_id "*" and stage discover, processes no entry and returns an
\* empty registry.
C4_EnumerationFailure ==
    (op = "discover" /\ env.fails) =>
        /\ plugins = <<>>
        /\ ret = <<>>
        /\ Len(errors) = pre.nerr + 1
        /\ errors[Len(errors)].plugin_id = STR_star
        /\ errors[Len(errors)].stage = "discover"

\* the enumeration fails while plugins are installed and registered
C4_Witness ==
    /\ op = "discover"
    /\ env.fails
    /\ pre.ids # {}
    /\ ValidEntries # {}
    /\ plugins = <<>>
    /\ pre.nerr > 0

---------------------------------------------------------------------------
(* Properties of the configuration resolver. *)

\* the value of config["modules"], and the tables nested in it: a table is
\* named by the positions of the entries that lead to it
ModulesOf(cfg) == DictGet(cfg, PyStr(STR_modules), PyNone)
IndexPaths == UNION {[1..k -> 1..(MaxTables + 2)] : k \in 1..(MaxTables + 1)}
RECURSIVE IsTablePath(_, _)
IsTablePath(items, p) ==
    /\ p[1] <= Len(items)
    /\ IsDict(items[p[1]][2])
    /\ Len(p) > 1 => IsTablePath(items[p[1]][2].items, Tail(p))
RECURSIVE TableAt(_, _)
TableAt(items, p) ==
    IF Len(p) = 1 THEN items[p[1]][2] ELSE TableAt(items[p[1]][2].items, Tail(p))
RECURSIVE KeysTo(_, _)
KeysTo(items, p) ==
    IF p = <<>> THEN <<>>
    ELSE <<items[p[1]][1]>> \o KeysTo(items[p[1]][2].items, Tail(p))
\* the tables under modules that string keys lead to
StringKeyed(items) ==
    {p \in IndexPaths :
        /\ IsTablePath(items, p)
        /\ \A k \in 1..Len(p) : IsStr(KeysTo(items, p)[k])}
\* the key path joined with ".", an empty prefix adding no separator
RECURSIVE Dotted(_, _)
Dotted(prefix, keys) ==
    IF keys = <<>> THEN prefix
    ELSE Dotted(IF prefix = <<>> THEN keys[1].s ELSE prefix \o STR_dot \o keys[1].s,
                Tail(keys))
DottedId(items, p) == PyStr(Dotted(<<>>, KeysTo(items, p)))
\* no table above p (below modules) has the key enabled
UnderNamespaces(items, p) ==
    \A k \in 1..(Len(p) - 1) : ~HasEnabled(TableAt(items, SubSeq(p, 1, k)))
\* the plugin tables: reached through namespaces, with the key enabled
PluginTables(items) ==
    {p \in StringKeyed(items) : UnderNamespaces(items, p) /\ HasEnabled(TableAt(items, p))}
Flattened == op = "get_configured_plugins" /\ IsDict(ModulesOf(config))

\* C5 as stated: every table under modules is a flattened entry, keyed by its
\* dotted path, iff it has the key enabled (read here of the tables that
\* non-empty string keys lead to).
C5_AsStated ==
    Flattened =>
        LET items == ModulesOf(config).items
        IN  \A p \in {q \in StringKeyed(items) :
                        \A k \in 1..Len(q) : KeysTo(items, q)[k].s # <<>>} :
                (/\ DictHas(ret, DottedId(items, p))
                 /\ DictGet(ret, DottedId(items, p), PyNone) = TableAt(items, p))
                    <=> HasEnabled(TableAt(items, p))

\* C5, amended: the keys of the flattened table are the dotted paths of the
\* tables that have the key enabled and are reached from modules through
\* string keys and through tables without the key enabled; each key holds
\* the last such table in document order. A table without enabled, and a
\* table inside a table that has enabled, adds no entry of its own.
C5_Flattening ==
    Flattened =>
        LET items == ModulesOf(config).items
            emitted == PluginTables(items)
        IN  /\ DictKeys(ret) = {DottedId(items, p) : p \in emitted}
            /\ \A p \in emitted :
                    (\A q \in emitted :
                        DottedId(items, q) = DottedId(items, p) => ~StrLess(p, q))
                        => DictGet(ret, DottedId(items, p), PyNone) = TableAt(items, p)

\* a namespace is recursed into and not emitted, and a table inside a plugin
\* table, with enabled of its own, is not emitted
C5_Witness ==
    /\ Flattened
    /\ LET items == ModulesOf(config).items
       IN  /\ \E p \in PluginTables(items) : Len(p) = 2
           /\ \E p \in StringKeyed(items) :
                /\ ~HasEnabled(TableAt(items, p))
                /\ ~DictHas(ret, DottedId(items, p))
           /\ \E p \in StringKeyed(items) :
                /\ HasEnabled(TableAt(items, p))
                /\ ~UnderNamespaces(items, p)
                /\ ~DictHas(ret, DottedId(items, p))

\* the value of enabled in a flattened entry
EnabledOf(table) == DictGet(table.items, PyStr(STR_enabled), PyBool(FALSE))
InSeq(x, seq) == \E i \in 1..Len(seq) : seq[i] = x
IsTypeMismatch(e, id) ==
    /\ e.plugin_id = id
    /\ e.stage = "load"
    /\ e.error = "TypeError: enabled must be bool"
NewMismatches(id) == {k \in 1..Len(NewErrors) : IsTypeMismatch(NewErrors[k], id)}

\* C6: get_enabled_plugin_ids returns the ids of the flattened entries whose
\* enabled is exactly True; an entry whose enabled is no boolean is left out
\* and appends one type-mismatch diagnostic for its id; an entry whose
\* enabled is exactly False is left out and appends nothing.
C6_EnabledIds ==
    op = "get_enabled_plugin_ids" =>
        LET flat == GetConfiguredPlugins(config)
        IN  /\ \A i \in 1..Len(flat) :
                LET id == flat[i][1].s
                    enabled == EnabledOf(flat[i][2])
                IN  /\ InSeq(id, ret) <=> (enabled = PyBool(TRUE))
                    /\ Cardinality(NewMismatches(id)) =
                          (IF enabled.kind = "bool" THEN 0 ELSE 1)
            /\ \A k \in 1..Len(ret) : DictHas(flat, PyStr(ret[k]))
            /\ Len(NewErrors) =
                  Cardinality({i \in 1..Len(flat) : EnabledOf(flat[i][2]).kind # "bool"})

\* one entry of each kind: True, False and not a boolean
C6_Witness ==
    /\ op = "get_enabled_plugin_ids"
    /\ Len(ret) = 1
    /\ Len(NewErrors) = 1
    /\ Len(GetConfiguredPlugins(config)) = 3
    /\ pre.nerr = 1

\* C7: is_enabled returns the boolean value of enabled and appends nothing
\* when the id is configured with a boolean, returns False with one new
\* diagnostic when enabled is no boolean, and returns False and appends
\* nothing when the id has no flattened entry.
C7_IsEnabled ==
    op = "is_enabled" =>
        LET flat == GetConfiguredPlugins(config)
            table == DictGet(flat, PyStr(arg), PyNone)
        IN  IF ~DictHas(flat, PyStr(arg))
            THEN ret = FALSE /\ Len(errors) = pre.nerr
            ELSE IF EnabledOf(table).kind = "bool"
            THEN ret = EnabledOf(table).b /\ Len(errors) = pre.nerr
            ELSE /\ ret = FALSE
                 /\ Len(errors) = pre.nerr + 1
                 /\ IsTypeMismatch(errors[Len(errors)], arg)

\* an id configured with a truthy string, in a configuration that enables
\* another id, asked about as the second call
C7_Witness ==
    /\ op = "is_enabled"
    /\ calls = 2
    /\ ret = FALSE
    /\ DictHas(GetConfiguredPlugins(config), PyStr(arg))
    /\ EnabledOf(DictGet(GetConfiguredPlugins(config), PyStr(arg), PyNone)) = PyStr(STR_yes)
    /\ Len(errors) = pre.nerr + 1
    /\ \E x \in QueryIds : IsEnabled(x, config, <<>>).value

---------------------------------------------------------------------------
(* Properties of the loader. *)

\* the descriptor registered for x, and whether load_plugin has to reject x:
\* not installed, a factory that raises, an instance that is not of the kind
\* plugin_type declares, or a plugin_type that is neither widget nor page
Registered(x) == DictGet(plugins, x, NoObject)
Accepts(plugin_type, factory) ==
    \/ plugin_type = "widget" /\ factory \in {"returns_widget", "returns_screen"}
    \/ plugin_type = "page" /\ factory = "returns_screen"
MustReject(x) ==
    \/ ~DictHas(plugins, x)
    \/ ~Accepts(Registered(x).plugin_type, Registered(x).factory)
MadeBy(x) == IF Registered(x).factory = "returns_widget" THEN "widget" ELSE "screen"
IsLoadError(e, x) == e.plugin_id = x /\ e.stage = "load"

\* C8: load_plugin appends one diagnostic (stage load, plugin_id the id asked
\* for) and returns None on every rejection path, and appends nothing and
\* returns the factory's instance when every check passes.
C8_LoadPluginDiagnostics ==
    op = "load_plugin" =>
        IF MustReject(arg)
        THEN /\ ret.value = NoInstance
             /\ Len(NewErrors) = 1
             /\ IsLoadError(NewErrors[1], arg)
        ELSE /\ ret.value.kind = MadeBy(arg)
             /\ ret.value.by = arg
             /\ Len(NewErrors) = 0

\* a page plugin whose factory returns a widget is rejected with the one
\* diagnostic, after an earlier call left a record in the log
C8_Witness ==
    /\ op = "load_plugin"
    /\ DictHas(plugins, arg)
    /\ Registered(arg).plugin_type = "page"
    /\ Registered(arg).factory = "returns_widget"
    /\ ret.value = NoInstance
    /\ pre.nerr = 1
    /\ Len(errors) = 2

\* the ids load_enabled has to load: flattened with enabled exactly True
EnabledInConfig == {x \in LoadIds :
    /\ DictHas(GetConfiguredPlugins(config), PyStr(x))
    /\ EnabledOf(DictGet(GetConfiguredPlugins(config), PyStr(x), PyNone)) = PyBool(TRUE)}
MistypedInConfig == {x \in LoadIds \cup {STR_a_b} :
    /\ DictHas(GetConfiguredPlugins(config), PyStr(x))
    /\ EnabledOf(DictGet(GetConfiguredPlugins(config), PyStr(x), PyNone)).kind # "bool"}
LoadedBy(x) == {k \in 1..Len(ret.value) : ret.value[k].by = x}

\* C9: load_enabled never raises. It returns the instances of the enabled
\* plugins that load, also of those that follow a plugin whose factory
\* raised, and nothing else; every enabled id that does not load, and every
\* mistyped enabled entry, shows as one diagnostic.
C9_LoadEnabledNeverRaises ==
    op = "load_enabled" =>
        /\ ~ret.raised
        /\ \A x \in LoadIds :
                Cardinality(LoadedBy(x)) =
                    (IF x \in EnabledInConfig /\ ~MustReject(x) THEN 1 ELSE 0)
        /\ \A k \in 1..Len(ret.value) : ret.value[k].by \in LoadIds
        /\ \A x \in LoadIds :
                Cardinality({k \in 1..Len(NewErrors) : IsLoadError(NewErrors[k], x)}) =
                    (IF (x \in EnabledInConfig /\ MustReject(x)) \/ x \in MistypedInConfig
                     THEN 1 ELSE 0)
        /\ Len(NewErrors) =
                Cardinality({x \in EnabledInConfig : MustReject(x)})
                    + Cardinality(MistypedInConfig)

\* the factory of a raises, and b, after it in sorted order, is loaded
C9_Witness ==
    /\ op = "load_enabled"
    /\ EnabledInConfig = {STR_a, STR_b}
    /\ DictHas(plugins, STR_a)
    /\ Registered(STR_a).factory = "raises"
    /\ Len(ret.value) = 1
    /\ ret.value[1].by = STR_b
    /\ Len(NewErrors) = 1
    /\ NewErrors[1].message.fmt = "Plugin '{}' factory raised an exception."

\* C10: the instances load_enabled returns are in ascending order of the ids
\* of the plugins that made them.
C10_LoadEnabledOrder ==
    op = "load_enabled" =>
        \A i, j \in 1..Len(ret.value) :
            i < j => StrLess(ret.value[i].by, ret.value[j].by)

\* b is configured before a and discovered before a, and both are loaded
C10_Witness ==
    /\ op = "load_enabled"
    /\ Len(ret.value) = 2
    /\ GetEnabledPluginIds(config, <<>>).ids = <<STR_b, STR_a>>
    /\ plugins[1][1] = STR_b
    /\ ret.value[1].by = STR_a

---------------------------------------------------------------------------
(* Properties of load_enabled() and of the factory calls. *)

\* the diagnostics of the last operation that carry the id x and are no
\* type-mismatch records of the configuration
LoadErrorsOf(x) ==
    {k \in 1..Len(NewErrors) :
        IsLoadError(NewErrors[k], x) /\ ~IsTypeMismatch(NewErrors[k], x)}
\* the diagnostic load_plugin records for an id that is not installed
NotInstalledError(x) == LoadPlugin(<<>>, <<>>, x, App, config).errors[1]

\* C11: for an id enabled (exactly True) in the configuration and absent
\* from the registry, load_enabled returns no instance of it and appends
\* exactly one diagnostic with that id, the "enabled but not installed"
\* record, whose error and message are not those load_plugin records for an
\* id that is not installed.
C11_EnabledButMissing ==
    op = "load_enabled" =>
        \A x \in EnabledInConfig :
            ~DictHas(plugins, x) =>
                /\ LoadedBy(x) = {}
                /\ Cardinality({k \in 1..Len(NewErrors) : NewErrors[k].plugin_id = x}) = 1
                /\ \A k \in LoadErrorsOf(x) :
                        /\ NewErrors[k].error = "KeyError: Plugin enabled but not installed"
                        /\ NewErrors[k].message.fmt =
                                "Plugin '{}' is enabled in config but not installed."
                        /\ NewErrors[k].message.args = <<x>>
                        /\ NewErrors[k].message # NotInstalledError(x).message
                        /\ NewErrors[k].error # NotInstalledError(x).error

\* a is enabled and not installed, b is enabled, installed and loaded
C11_Witness ==
    /\ op = "load_enabled"
    /\ EnabledInConfig = {STR_a, STR_b}
    /\ ~DictHas(plugins, STR_a)
    /\ DictHas(plugins, STR_b)
    /\ Len(ret.value) = 1
    /\ Len(NewErrors) = 1
    /\ NewErrors[1].plugin_id = STR_a
    /\ NotInstalledError(STR_a).message.fmt = "Plugin '{}' is not installed or not discoverable."

---------------------------------------------------------------------------
(* Properties of the diagnostic log and of the registry, over every        *)
(* operation.                                                              *)

IsPrefix(s, t) == Len(s) <= Len(t) /\ SubSeq(t, 1, Len(s)) = s

\* C12: every operation other than clear_errors leaves the diagnostics
\* recorded so far in place and in order, as a prefix of the log: discover,
\* get_enabled_plugin_ids, is_enabled, load_plugin and load_enabled only
\* append.
C12_AppendOnly ==
    [][op' # "clear_errors" => IsPrefix(errors, errors')]_vars

\* a second discover() adds its records to those of the first
C12_Witness ==
    /\ op = "discover"
    /\ pre.op = "discover"
    /\ pre.nerr > 0
    /\ Len(errors) = 2 * pre.nerr
    /\ SubSeq(errors, 1, pre.nerr) = NewErrors

\* the factory calls of the last loading operation made for the plugin x
InvokedFor(x) == {k \in 1..Len(ret.invoked) : ret.invoked[k].by = x}

\* C13: during load_enabled a factory is called only for a plugin whose
\* flattened enabled is exactly True. A plugin that is not configured, that
\* is configured False or without enabled, or whose enabled is no boolean,
\* has no factory call and no instance in the result, installed or not.
C13_FailSafeActivation ==
    op = "load_enabled" =>
        /\ \A k \in 1..Len(ret.invoked) : ret.invoked[k].by \in EnabledInConfig
        /\ \A x \in LoadIds \ EnabledInConfig :
                InvokedFor(x) = {} /\ LoadedBy(x) = {}

\* a is installed with a working factory and configured with the truthy
\* string, b is enabled: only the factory of b is called
C13_Witness ==
    /\ op = "load_enabled"
    /\ DictHas(plugins, STR_a)
    /\ Accepts(Registered(STR_a).plugin_type, Registered(STR_a).factory)
    /\ MistypedInConfig = {STR_a}
    /\ EnabledInConfig = {STR_b}
    /\ Len(ret.invoked) = 1
    /\ ret.invoked[1].by = STR_b
    /\ Len(ret.value) = 1

\* what load_plugin did with the installed plugin it was asked for: the
\* instance it returned satisfies what plugin_type declares; it returned
\* None and appended the one diagnostic with the given error
Satisfies(instance, plugin_type) ==
    \/ plugin_type = "widget" /\ IsWidget(instance)
    \/ plugin_type = "page" /\ IsScreen(instance)
RejectedWith(error) ==
    /\ ret.value = NoInstance
    /\ Len(NewErrors) = 1
    /\ IsLoadError(NewErrors[1], arg)
    /\ NewErrors[1].error = error
ReturnTypeChecked ==
    /\ ret.value # NoInstance => Satisfies(ret.value, Registered(arg).plugin_type)
    /\ (/\ Registered(arg).plugin_type = "widget"
        /\ Registered(arg).factory \in {"returns_other", "returns_none"})
            => RejectedWith("TypeError: Invalid plugin return type")

\* C14 as stated: ... and a plugin_type that is neither widget nor page
\* yields None with the unknown-plugin_type diagnostic, whatever the factory
\* does.
C14_AsStated ==
    (op = "load_plugin" /\ DictHas(plugins, arg)) =>
        /\ ReturnTypeChecked
        /\ Registered(arg).plugin_type \notin {"widget", "page"}
                => RejectedWith("ValueError: Unknown plugin type")

\* C14: load_plugin returns an instance only if the instance satisfies what
\* the descriptor's plugin_type declares (Widget for widget, Screen for
\* page); a widget plugin whose factory returns something that is no Widget
\* yields None and the one wrong-return-type diagnostic; a plugin of any
\* other plugin_type yields None and one diagnostic, which is the
\* unknown-plugin_type record when its factory returns and the
\* factory-raised record when its factory raises.
C14_ReturnTypeValidation ==
    (op = "load_plugin" /\ DictHas(plugins, arg)) =>
        /\ ReturnTypeChecked
        /\ Registered(arg).plugin_type \notin {"widget", "page"} =>
                IF Registered(arg).factory = "raises"
                THEN RejectedWith("the factory's exception")
                ELSE RejectedWith("ValueError: Unknown plugin type")

\* a plugin of an unknown plugin_type, whose factory is called and returns
\* a widget, is rejected
C14_Witness ==
    /\ op = "load_plugin"
    /\ DictHas(plugins, arg)
    /\ Registered(arg).plugin_type = "gauge"
    /\ Registered(arg).factory = "returns_widget"
    /\ Len(ret.invoked) = 1
    /\ RejectedWith("ValueError: Unknown plugin type")

\* C15: get_errors() called right after clear_errors() returns the empty
\* sequence, whatever the log held before.
C15_ClearThenGet ==
    (op = "get_errors" /\ pre.op = "clear_errors") => ret = <<>>

\* clear_errors() was called on a log of two records or more, then
\* get_errors()
C15_Witness ==
    /\ op = "get_errors"
    /\ pre.op = "clear_errors"
    /\ pre.was >= 2
    /\ ret = <<>>
    /\ errors = <<>>

\* C16: in one load_enabled call every enabled id ends in exactly one of
\* loaded (one instance in the result) and load-failed (one load
\* diagnostic), and the factory of an id that is enabled and installed is
\* called exactly once, also when it fails.
C16_OneOutcomePerPlugin ==
    op = "load_enabled" =>
        \A x \in EnabledInConfig :
            /\ Cardinality(LoadedBy(x)) + Cardinality(LoadErrorsOf(x)) = 1
            /\ Cardinality(InvokedFor(x)) = (IF DictHas(plugins, x) THEN 1 ELSE 0)

\* a and b are enabled and installed; the factory of a returns what its
\* plugin_type does not accept, b is loaded; each factory was called once
C16_Witness ==
    /\ op = "load_enabled"
    /\ EnabledInConfig = {STR_a, STR_b}
    /\ DictHas(plugins, STR_a) /\ DictHas(plugins, STR_b)
    /\ Registered(STR_a).factory = "returns_other"
    /\ Len(ret.invoked) = 2
    /\ LoadedBy(STR_a) = {} /\ Cardinality(LoadErrorsOf(STR_a)) = 1
    /\ Cardinality(LoadedBy(STR_b)) = 1 /\ LoadErrorsOf(STR_b) = {}

\* whether the k-th diagnostic of the last operation is a type-mismatch
\* record of the configuration
IsMismatch(k) == NewErrors[k].error = "TypeError: enabled must be bool"

\* C17: of the diagnostics one load_enabled call appends, the type-mismatch
\* records all come before the load diagnostics of the plugins, and those
\* are in ascending order of plugin id, whatever the order of the
\* configuration.
C17_DiagnosticOrder ==
    op = "load_enabled" =>
        \A i, j \in 1..Len(NewErrors) :
            i < j =>
                /\ IsMismatch(j) => IsMismatch(i)
                /\ (~IsMismatch(i) /\ ~IsMismatch(j)) =>
                        StrLess(NewErrors[i].plugin_id, NewErrors[j].plugin_id)

\* the configuration names b, then a mistyped table, then a; a and b are
\* enabled and fail to load: the mismatch record comes first, then a, then b
C17_Witness ==
    /\ op = "load_enabled"
    /\ GetEnabledPluginIds(config, <<>>).ids = <<STR_b, STR_a>>
    /\ Len(NewErrors) = 3
    /\ IsMismatch(1)
    /\ NewErrors[2].plugin_id = STR_a /\ ~IsMismatch(2)
    /\ NewErrors[3].plugin_id = STR_b /\ ~IsMismatch(3)
    /\ NewErrors[2].error # NewErrors[3].error

\* the flattened record of the id x in the configuration, empty when the
\* flattened table has no entry for x
RecordOf(x) ==
    IF DictHas(GetConfiguredPlugins(config), PyStr(x))
    THEN DictGet(GetConfiguredPlugins(config), PyStr(x), PyNone).items
    ELSE <<>>

\* C18: load_plugin of an installed id calls the plugin's factory once, with
\* the host context it was given and with the flattened record of the id,
\* which is the empty record when the configuration has no flattened entry
\* for the id; a missing entry is no cause of rejection and of no
\* diagnostic.
C18_FactoryArguments ==
    (op = "load_plugin" /\ DictHas(plugins, arg)) =>
        /\ ret.invoked = <<[by |-> arg, app |-> App, cfg |-> RecordOf(arg)]>>
        /\ (/\ ~DictHas(GetConfiguredPlugins(config), PyStr(arg))
            /\ Accepts(Registered(arg).plugin_type, Registered(arg).factory))
                => /\ ret.value # NoInstance
                   /\ ret.value.app = App
                   /\ ret.value.cfg = <<>>
                   /\ NewErrors = <<>>

\* modules is no table, and the installed plugin a is loaded with the empty
\* record
C18_Witness ==
    /\ op = "load_plugin"
    /\ arg = STR_a
    /\ DictHas(plugins, STR_a)
    /\ config = WithModules(PyStr(STR_yes))
    /\ ret.invoked = <<[by |-> STR_a, app |-> App, cfg |-> <<>>]>>
    /\ ret.value # NoInstance
    /\ NewErrors = <<>>

\* C19: only discover() changes the registry: every other operation leaves
\* it as it was, a failing load included; and list_plugins, get_plugin,
\* is_installed and get_configured_plugins leave the log as it was.
C19_RegistryFrame ==
    [][/\ op' # "discover" => plugins' = plugins
       /\ op' \in {"list_plugins", "get_plugin", "is_installed", "get_configured_plugins"}
            => errors' = errors]_vars

\* load_plugin has failed for an installed plugin and appended its record;
\* get_plugin then finds the plugin in the registry and appends nothing
C19_Witness ==
    /\ op = "get_plugin"
    /\ pre.op = "load_plugin"
    /\ pre.nerr > pre.was
    /\ DictHas(plugins, arg)
    /\ ret = Registered(arg)
    /\ ~Accepts(ret.plugin_type, ret.factory)
    /\ DictKeys(plugins) = pre.ids
    /\ Len(errors) = pre.nerr

---------------------------------------------------------------------------
(* The two enable queries against each other. *)

\* what get_enabled_plugin_ids and is_enabled do on the configuration, each
\* from an empty log
ListedEnabled == GetEnabledPluginIds(config, <<>>)
AskedEnabled(x) == IsEnabled(x, config, <<>>)
ListLogs(x) == \E k \in 1..Len(ListedEnabled.errors) : ListedEnabled.errors[k].plugin_id = x

\* C20: is_enabled(id, config) returns True iff id is in the list
\* get_enabled_plugin_ids(config) returns, and it appends a diagnostic iff
\* get_enabled_plugin_ids(config) appends one for that id; seen from a call
\* of either.
C20_QueriesAgree ==
    /\ op = "is_enabled" =>
            /\ ret = TRUE <=> InSeq(arg, ListedEnabled.ids)
            /\ Len(NewErrors) > 0 <=> ListLogs(arg)
    /\ op = "get_enabled_plugin_ids" =>
            \A x \in QueryIds \cup {ret[k] : k \in 1..Len(ret)}
                        \cup {NewErrors[k].plugin_id : k \in 1..Len(NewErrors)} :
                /\ InSeq(x, ret) <=> AskedEnabled(x).value
                /\ NewMismatches(x) # {} <=> AskedEnabled(x).errors # <<>>

\* get_enabled_plugin_ids has logged a mistyped entry and listed another
\* id; is_enabled, asked about the mistyped id, appends the same record
C20_Witness ==
    /\ op = "is_enabled"
    /\ pre.op = "get_enabled_plugin_ids"
    /\ ret = FALSE
    /\ ListedEnabled.ids # <<>>
    /\ Len(errors) = pre.nerr + 1
    /\ \E k \in 1..pre.nerr : errors[k] = errors[Len(errors)]

=============================================================================
